---------------------------- MODULE Spec2Model ----------------------------
(***************************************************************************)
(* Model of src/src/smart_consensus.py: the SmartConsensusEngine (embedding*)
(* cache, similarity, entity comparison, contradiction detection) and the  *)
(* command line entry point main().                                        *)
(*                                                                         *)
(* Texts are sequences of one-character strings.  Python floats are        *)
(* modelled as exact rationals <<numerator, denominator>> in lowest terms. *)
(***************************************************************************)
EXTENDS Integers, Sequences, FiniteSets, TLC

(***************************************************************************)
(* Bounds of the model.                                                    *)
(***************************************************************************)
MaxResponses == 3

(***************************************************************************)
(* Exact rational arithmetic standing for Python float arithmetic.         *)
(***************************************************************************)
Abs(x) == IF x < 0 THEN -x ELSE x

RECURSIVE GCD(_, _)
GCD(a, b) == IF b = 0 THEN a ELSE GCD(b, a % b)

Rat(n, d) ==
    LET g == GCD(Abs(n), d)
    IN  IF n = 0 THEN <<0, 1>> ELSE <<n \div g, d \div g>>

RInt(n) == <<n, 1>>
RAdd(a, b) == Rat(a[1] * b[2] + b[1] * a[2], a[2] * b[2])
RSub(a, b) == Rat(a[1] * b[2] - b[1] * a[2], a[2] * b[2])
RMul(a, b) == Rat(a[1] * b[1], a[2] * b[2])
\* a / b for b > 0
RDiv(a, b) == Rat(a[1] * b[2], a[2] * b[1])
RLe(a, b) == a[1] * b[2] <= b[1] * a[2]
RLt(a, b) == a[1] * b[2] < b[1] * a[2]
RAbs(a) == <<Abs(a[1]), a[2]>>
RMax(a, b) == IF RLt(a, b) THEN b ELSE a
RMin(a, b) == IF RLt(b, a) THEN b ELSE a

RECURSIVE RSum(_)
RSum(s) == IF s = <<>> THEN RInt(0) ELSE RAdd(Head(s), RSum(Tail(s)))

\* np.mean of a non-empty list
Mean(s) == RDiv(RSum(s), RInt(Len(s)))

Zero == RInt(0)
One == RInt(1)

(***************************************************************************)
(* Characters.                                                             *)
(***************************************************************************)
Digits == {"0", "1", "2", "3", "4", "5", "6", "7", "8", "9"}
DigitVal == [c \in Digits |->
    CASE c = "0" -> 0 [] c = "1" -> 1 [] c = "2" -> 2 [] c = "3" -> 3
      [] c = "4" -> 4 [] c = "5" -> 5 [] c = "6" -> 6 [] c = "7" -> 7
      [] c = "8" -> 8 [] c = "9" -> 9]
DigitChar == <<"0", "1", "2", "3", "4", "5", "6", "7", "8", "9">>
LowerLetters == {"a", "b", "c", "d", "e", "f", "g", "h", "i", "j", "k", "l",
                 "m", "n", "o", "p", "q", "r", "s", "t", "u", "v", "w", "x",
                 "y", "z", "å", "ä", "ö"}
LowerMap == [c \in {"A", "B", "C", "D", "E", "H", "M", "N", "O", "T", "U"} |->
    CASE c = "A" -> "a" [] c = "B" -> "b" [] c = "C" -> "c" [] c = "D" -> "d"
      [] c = "E" -> "e" [] c = "H" -> "h" [] c = "M" -> "m" [] c = "N" -> "n"
      [] c = "O" -> "o" [] c = "T" -> "t" [] c = "U" -> "u"]
Whitespace == {" ", "\t", "\n"}
MarkdownChars == {"*", "_", "#"}
\* the regular expression class \w
WordChars == LowerLetters \cup DOMAIN LowerMap \cup Digits \cup {"_"}

\* str.lower()
Lower(text) == [i \in 1..Len(text) |->
                  IF text[i] \in DOMAIN LowerMap THEN LowerMap[text[i]] ELSE text[i]]

Min2(a, b) == IF a < b THEN a ELSE b
SetMin(S) == CHOOSE x \in S : \A y \in S : x <= y
SetMax(S) == CHOOSE x \in S : \A y \in S : y <= x

\* str(n) for n >= 0
RECURSIVE IntToStr(_)
IntToStr(n) ==
    IF n < 10 THEN <<DigitChar[n + 1]>>
    ELSE Append(IntToStr(n \div 10), DigitChar[(n % 10) + 1])

\* int(s) for a string of digits
RECURSIVE StrToInt(_)
StrToInt(s) ==
    IF s = <<>> THEN 0
    ELSE 10 * StrToInt(SubSeq(s, 1, Len(s) - 1)) + DigitVal[s[Len(s)]]

RECURSIVE Pow10(_)
Pow10(k) == IF k = 0 THEN 1 ELSE 10 * Pow10(k - 1)

(***************************************************************************)
(* Regular expression helpers.                                             *)
(***************************************************************************)
IsWordAt(text, i) == i >= 1 /\ i <= Len(text) /\ text[i] \in WordChars

\* \b between positions i-1 and i
BoundaryAt(text, i) == IsWordAt(text, i - 1) # IsWordAt(text, i)

MatchAt(text, i, word) ==
    /\ i + Len(word) - 1 <= Len(text)
    /\ \A k \in 1..Len(word) : text[i + k - 1] = word[k]

\* len(re.findall(r'\bword\b', text))
CountWord(text, word) ==
    Cardinality({i \in 1..Len(text) :
        /\ MatchAt(text, i, word)
        /\ BoundaryAt(text, i)
        /\ BoundaryAt(text, i + Len(word))})

\* the characters of text at the indices of idx, in order
Pick(text, idx) ==
    LET kept == SelectSeq([i \in 1..Len(text) |-> i], LAMBDA i : i \in idx)
    IN  [k \in 1..Len(kept) |-> text[kept[k]]]

(***************************************************************************)
(* Program constants.                                                      *)
(***************************************************************************)
KeyPrefixLen == 100
CleanMaxLen == 500

(***************************************************************************)
(* _clean_text                                                             *)
(***************************************************************************)
\* re.sub(r'[*_#]+', '', text)
StripMarkdown(text) == SelectSeq(text, LAMBDA c : c \notin MarkdownChars)

\* re.sub(r'\s+', ' ', text)
CollapseWhitespace(text) ==
    LET keep == {i \in 1..Len(text) :
                    \/ text[i] \notin Whitespace
                    \/ i = 1
                    \/ text[i - 1] \notin Whitespace}
        kept == Pick(text, keep)
    IN  [k \in 1..Len(kept) |-> IF kept[k] \in Whitespace THEN " " ELSE kept[k]]

\* str.strip()
Strip(text) ==
    LET solid == {i \in 1..Len(text) : text[i] \notin Whitespace}
    IN  IF solid = {} THEN <<>> ELSE SubSeq(text, SetMin(solid), SetMax(solid))

CleanText(text) ==
    LET t1 == StripMarkdown(text)
        t2 == CollapseWhitespace(t1)
        t3 == IF Len(t2) > CleanMaxLen THEN SubSeq(t2, 1, CleanMaxLen) ELSE t2
    IN  Strip(t3)

(***************************************************************************)
(* The cache key of _get_embeddings: text[:100] + f"_{len(text)}"          *)
(***************************************************************************)
CacheKey(text) ==
    SubSeq(text, 1, Min2(KeyPrefixLen, Len(text))) \o <<"_">> \o IntToStr(Len(text))

(***************************************************************************)
(* The embedding collaborator, self.encoder.encode: a deterministic        *)
(* function of the cleaned text.  Embeddings are integer vectors of        *)
(* Euclidean norm 5; the topic of a text is read off its last letter.      *)
(***************************************************************************)
Encode(clean) ==
    LET letters == {i \in 1..Len(clean) : clean[i] \in LowerLetters \cup DOMAIN LowerMap}
        last == IF letters = {} THEN "" ELSE clean[SetMax(letters)]
    IN  CASE last = "" -> <<3, 4>>
          [] last \in {"t", "c"} -> <<5, 0>>
          [] last \in {"g", "d"} -> <<-5, 0>>
          [] last \in {"o", "r"} -> <<4, 3>>
          [] OTHER -> <<0, 5>>

Dot(u, v) == u[1] * v[1] + u[2] * v[2]

\* integer square root of a perfect square
ISqrt(n) == CHOOSE r \in 0..n : r * r = n

(***************************************************************************)
(* The entity recognition collaborator, self.nlp: every whitespace         *)
(* delimited token that holds a digit is an entity span.                   *)
(***************************************************************************)
RECURSIVE Tokens(_)
Tokens(text) ==
    LET solid == {i \in 1..Len(text) : text[i] \notin Whitespace}
    IN  IF solid = {} THEN <<>>
        ELSE LET b == SetMin(solid)
                 gaps == {i \in b..Len(text) : text[i] \in Whitespace}
                 e == IF gaps = {} THEN Len(text) ELSE SetMin(gaps) - 1
             IN  <<SubSeq(text, b, e)>> \o Tokens(SubSeq(text, e + 1, Len(text)))

EntLabel(tok) ==
    LET hasDigit == \E i \in 1..Len(tok) : tok[i] \in Digits
        allDigit == \A i \in 1..Len(tok) : tok[i] \in Digits
    IN  CASE ~hasDigit -> "NONE"
          [] tok[Len(tok)] = "%" -> "PERCENT"
          [] tok[1] = "$" -> "MONEY"
          [] allDigit /\ Len(tok) = 4 -> "DATE"
          [] \A i \in 1..Len(tok) : tok[i] \in Digits \cup {"."} -> "CARDINAL"
          [] OTHER -> "MISC"

\* doc.ents: a sequence of [label, text]
Nlp(text) ==
    LET toks == Tokens(text)
        ents == [k \in 1..Len(toks) |-> [label |-> EntLabel(toks[k]), text |-> toks[k]]]
    IN  SelectSeq(ents, LAMBDA e : e.label # "NONE")

(***************************************************************************)
(* Fact extraction of _compare_entities.                                   *)
(***************************************************************************)
\* re.search(r'20\d{2}', s): <<>> when there is no match, else <<int(match)>>
YearOf(s) ==
    LET hits == {i \in 1..Len(s) :
                    /\ i + 3 <= Len(s)
                    /\ s[i] = "2" /\ s[i + 1] = "0"
                    /\ s[i + 2] \in Digits /\ s[i + 3] \in Digits}
    IN  IF hits = {} THEN <<>>
        ELSE <<RInt(StrToInt(SubSeq(s, SetMin(hits), SetMin(hits) + 3)))>>

\* re.search(r'[\d.]+', s) then float(): <<>> on no match or ValueError
NumberOf(s) ==
    LET cls == Digits \cup {"."}
        hits == {i \in 1..Len(s) : s[i] \in cls}
    IN  IF hits = {} THEN <<>>
        ELSE LET b == SetMin(hits)
                 stops == {i \in b..Len(s) : s[i] \notin cls}
                 e == IF stops = {} THEN Len(s) ELSE SetMin(stops) - 1
                 run == SubSeq(s, b, e)
                 dots == {i \in 1..Len(run) : run[i] = "."}
                 digs == Pick(run, {i \in 1..Len(run) : run[i] # "."})
             IN  IF Cardinality(dots) > 1 \/ digs = <<>> THEN <<>>
                 ELSE IF dots = {} THEN <<RInt(StrToInt(digs))>>
                 ELSE <<Rat(StrToInt(digs), Pow10(Len(run) - SetMin(dots)))>>

RECURSIVE Flatten(_)
Flatten(ss) == IF ss = <<>> THEN <<>> ELSE Head(ss) \o Flatten(Tail(ss))

ExtractDates(text) ==
    LET ents == Nlp(text)
    IN  Flatten([k \in 1..Len(ents) |->
            IF ents[k].label = "DATE" THEN YearOf(ents[k].text) ELSE <<>>])

ExtractNumbers(text) ==
    LET ents == Nlp(text)
    IN  Flatten([k \in 1..Len(ents) |->
            IF ents[k].label \in {"CARDINAL", "PERCENT", "MONEY"}
            THEN NumberOf(ents[k].text) ELSE <<>>])

(***************************************************************************)
(* The texts the model draws responses from.                               *)
(***************************************************************************)
Fill(c, n) == [i \in 1..n |-> c]

\* ""
T_Empty == <<>>
\* "no not *never* 2000 100"
T_Neg == <<"n", "o", " ", "n", "o", "t", " ", "*", "n", "e", "v", "e", "r", "*", " ",
           "2", "0", "0", "0", " ", "1", "0", "0">>
\* two texts of 101 characters, "But aaa...", that share their first 100 characters
T_LongC == <<"B", "u", "t", " ">> \o Fill("a", KeyPrefixLen - 4) \o <<"c">>
T_LongD == <<"B", "u", "t", " ">> \o Fill("a", KeyPrefixLen - 4) \o <<"d">>

Corpus == {T_Empty, T_Neg, T_LongC, T_LongD}

ResponseLists == UNION {[1..n -> Corpus] : n \in 0..MaxResponses}

(***************************************************************************)
(* Unordered pairs (i, j), i < j, in the order of the nested loops.        *)
(***************************************************************************)
PairSeq(n) ==
    LET all == {p \in (1..n) \X (1..n) : p[1] < p[2]}
        rank(p) == Cardinality({q \in all : q[1] < p[1] \/ (q[1] = p[1] /\ q[2] < p[2])})
    IN  [k \in 1..Cardinality(all) |-> CHOOSE p \in all : rank(p) = k - 1]

(***************************************************************************)
(* _calculate_numeric_similarity                                           *)
(***************************************************************************)
\* the inner loops over n1, n2: the best similarity of two value lists
BestSimilarity(nums1, nums2) ==
    LET sims == {RMax(Zero, RSub(One, RDiv(RAbs(RSub(nums1[a], nums2[b])),
                                           RMax(nums1[a], nums2[b])))) :
                    <<a, b>> \in {q \in (1..Len(nums1)) \X (1..Len(nums2)) :
                                    RMax(nums1[q[1]], nums2[q[2]]) # Zero}}
    IN  IF sims = {} THEN Zero
        ELSE CHOOSE m \in sims : \A x \in sims : RLe(x, m)

\* the sum of the best similarities in place of their mean
CalculateNumericSimilarity_Sum(number_lists) ==
    LET n == Len(number_lists)
        pairs == SelectSeq(PairSeq(n),
                     LAMBDA p : number_lists[p[1]] # <<>> /\ number_lists[p[2]] # <<>>)
        similarities == [k \in 1..Len(pairs) |->
                            BestSimilarity(number_lists[pairs[k][1]],
                                           number_lists[pairs[k][2]])]
    IN  IF \A i \in 1..n : number_lists[i] = <<>> THEN Zero
        ELSE IF Len(Flatten(number_lists)) < 2 THEN Zero
        ELSE RSum(similarities)

CalculateNumericSimilarity(number_lists) ==
    LET n == Len(number_lists)
        pairs == SelectSeq(PairSeq(n),
                     LAMBDA p : number_lists[p[1]] # <<>> /\ number_lists[p[2]] # <<>>)
        similarities == [k \in 1..Len(pairs) |->
                            BestSimilarity(number_lists[pairs[k][1]],
                                           number_lists[pairs[k][2]])]
    IN  IF \A i \in 1..n : number_lists[i] = <<>> THEN Zero
        ELSE IF Len(Flatten(number_lists)) < 2 THEN Zero
        ELSE IF similarities = <<>> THEN Zero
        ELSE Mean(similarities)

(***************************************************************************)
(* _compare_entities                                                       *)
(***************************************************************************)
\* lines 148-156: the adjustment of the extracted facts
EntityAdjustment(all_dates, all_numbers) ==
    LET date_similarity == CalculateNumericSimilarity(all_dates)
        number_similarity == CalculateNumericSimilarity(all_numbers)
        entity_bonus == RAdd(RMul(Rat(6, 10), date_similarity),
                             RMul(Rat(4, 10), number_similarity))
    IN  RAdd(One, RMul(entity_bonus, Rat(5, 10)))

DatesOf == [t \in Corpus |-> ExtractDates(t)]
NumbersOf == [t \in Corpus |-> ExtractNumbers(t)]

\* lines 118-156 for every response list of the model
AdjustmentOf == [responses \in ResponseLists |->
    EntityAdjustment([i \in 1..Len(responses) |-> DatesOf[responses[i]]],
                     [i \in 1..Len(responses) |-> NumbersOf[responses[i]]])]

\* an except clause that returns 0.0
CompareEntities_ZeroOnFailure(responses, nlpFails) ==
    IF nlpFails THEN Zero ELSE AdjustmentOf[responses]

\* nlpFails: the entity recognition collaborator raises
CompareEntities(responses, nlpFails) ==
    IF nlpFails THEN One ELSE AdjustmentOf[responses]

(***************************************************************************)
(* _detect_contradictions                                                  *)
(***************************************************************************)
W_not == <<"n", "o", "t">>
W_inte == <<"i", "n", "t", "e">>
W_aldrig == <<"a", "l", "d", "r", "i", "g">>
W_never == <<"n", "e", "v", "e", "r">>
W_no == <<"n", "o">>
W_nej == <<"n", "e", "j">>
W_impossible == <<"i", "m", "p", "o", "s", "s", "i", "b", "l", "e">>
W_omojligt == <<"o", "m", "ö", "j", "l", "i", "g", "t">>
W_unlikely == <<"u", "n", "l", "i", "k", "e", "l", "y">>
W_osannolikt == <<"o", "s", "a", "n", "n", "o", "l", "i", "k", "t">>
W_disagree == <<"d", "i", "s", "a", "g", "r", "e", "e">>
W_haller == <<"h", "å", "l", "l", "e", "r", " ", "i", "n", "t", "e", " ", "m", "e", "d">>
W_motsatter == <<"m", "o", "t", "s", "ä", "t", "t", "e", "r">>
W_however == <<"h", "o", "w", "e", "v", "e", "r">>
W_but == <<"b", "u", "t">>
W_men == <<"m", "e", "n">>
W_dock == <<"d", "o", "c", "k">>
W_contrary == <<"o", "n", " ", "t", "h", "e", " ", "c", "o", "n", "t", "r", "a", "r", "y">>
W_tvartom == <<"t", "v", "ä", "r", "t", "o", "m">>

negation_patterns == <<W_not, W_inte, W_aldrig, W_never, W_no, W_nej,
                       W_impossible, W_omojligt, W_unlikely, W_osannolikt,
                       W_disagree, W_haller, W_motsatter>>
disagreement_markers == <<W_however, W_but, W_men, W_dock, W_contrary, W_tvartom>>

RECURSIVE SumInts(_)
SumInts(s) == IF s = <<>> THEN 0 ELSE Head(s) + SumInts(Tail(s))

\* sum(len(re.findall(pattern, text)) for pattern in patterns)
CountAll(text, patterns) ==
    SumInts([k \in 1..Len(patterns) |-> CountWord(text, patterns[k])])

NegCountOf == [t \in Corpus |-> CountAll(Lower(t), negation_patterns)]
MarkerCountOf == [t \in Corpus |-> CountAll(Lower(t), disagreement_markers)]

\* the signals one pair of responses appends
PairSignals(resp1, resp2) ==
    LET neg_count1 == NegCountOf[resp1]
        neg_count2 == NegCountOf[resp2]
        disagreement_count == MarkerCountOf[resp1] + MarkerCountOf[resp2]
    IN  (IF Abs(neg_count1 - neg_count2) > 2 THEN <<Rat(5, 10)>> ELSE <<>>)
        \o (IF disagreement_count > 1 THEN <<Rat(3, 10)>> ELSE <<>>)

\* lines 213-248
ContradictionPenalty(responses) ==
    LET pairs == PairSeq(Len(responses))
        contradiction_signals ==
            Flatten([k \in 1..Len(pairs) |->
                        PairSignals(responses[pairs[k][1]], responses[pairs[k][2]])])
    IN  IF contradiction_signals # <<>>
        THEN RMin(Rat(8, 10), Mean(contradiction_signals))
        ELSE Zero

PenaltyOf == [responses \in ResponseLists |-> ContradictionPenalty(responses)]

\* conFails: the stage raises
DetectContradictions(responses, conFails) ==
    IF conFails THEN Zero ELSE PenaltyOf[responses]

(***************************************************************************)
(* _get_embeddings.  The cache is a function from cache keys to vectors.   *)
(* encAt = i > 0: the encoder raises if it is invoked for texts[i].        *)
(* The result holds the embeddings, the cache as the call leaves it, the   *)
(* texts the encoder was invoked for, and whether the call raised.         *)
(***************************************************************************)
EmptyCache == [k \in {} |-> <<>>]

KeyOf == [t \in Corpus |-> CacheKey(t)]
EmbeddingOf == [t \in Corpus |-> Encode(CleanText(t))]

\* the Euclidean norms of the vectors the encoder returns
NormOf == [v \in {EmbeddingOf[t] : t \in Corpus} |-> ISqrt(Dot(v, v))]

\* sklearn cosine_similarity of two rows (a zero row is left unscaled)
Cosine(u, v) ==
    LET du == IF NormOf[u] = 0 THEN 1 ELSE NormOf[u]
        dv == IF NormOf[v] = 0 THEN 1 ELSE NormOf[v]
    IN  Rat(Dot(u, v), du * dv)

\* an iteration that never looks the key up
EmbedOne_AlwaysEncodes(acc, text, fails) ==
    LET cache_key == KeyOf[text]
    IN  IF acc.raised THEN acc
        ELSE IF fails
        THEN [acc EXCEPT !.raised = TRUE, !.invoked = Append(@, text)]
        ELSE [acc EXCEPT !.cache = (cache_key :> EmbeddingOf[text]) @@ @,
                         !.embeddings = Append(@, EmbeddingOf[text]),
                         !.invoked = Append(@, text),
                         !.stored = Append(@, text)]

\* one iteration of the loop over texts
EmbedOne(acc, text, fails) ==
    LET cache_key == KeyOf[text]
    IN  IF acc.raised THEN acc
        ELSE IF cache_key \in DOMAIN acc.cache
        THEN [acc EXCEPT !.embeddings = Append(@, acc.cache[cache_key])]
        ELSE IF fails
        THEN [acc EXCEPT !.raised = TRUE, !.invoked = Append(@, text)]
        ELSE [acc EXCEPT !.cache = (cache_key :> EmbeddingOf[text]) @@ @,
                         !.embeddings = Append(@, EmbeddingOf[text]),
                         !.invoked = Append(@, text),
                         !.stored = Append(@, text)]

RECURSIVE EmbedLoop(_, _, _, _)
EmbedLoop(acc, texts, i, encAt) ==
    IF i > Len(texts) THEN acc
    ELSE EmbedLoop(EmbedOne(acc, texts[i], encAt = i), texts, i + 1, encAt)

GetEmbeddings(cache, texts, encAt) ==
    EmbedLoop([cache |-> cache, embeddings |-> <<>>, invoked |-> <<>>,
               stored |-> <<>>, raised |-> FALSE], texts, 1, encAt)

(***************************************************************************)
(* measure_consensus                                                       *)
(***************************************************************************)
PairsOf == [n \in 0..MaxResponses |-> PairSeq(n)]

\* lines 52-61: the mean of the upper triangle of the cosine matrix
BaseSimilarity(embeddings) ==
    LET pairs == PairsOf[Len(embeddings)]
        similarities == [k \in 1..Len(pairs) |->
                            Cosine(embeddings[pairs[k][1]], embeddings[pairs[k][2]])]
    IN  IF similarities # <<>> THEN Mean(similarities) ELSE Zero

\* a clamp that forgets the upper bound
Clamp_NoUpperBound(x) == RMax(Zero, x)

\* line 73
Clamp(x) == RMax(Zero, RMin(One, x))

\* lines 64-73
Combine(base_similarity, responses, faults) ==
    LET entity_adjustment == CompareEntities(responses, faults.nlp)
        contradiction_penalty == DetectContradictions(responses, faults.con)
        final_consensus == RMul(RMul(base_similarity, entity_adjustment),
                                RSub(One, contradiction_penalty))
    IN  Clamp(final_consensus)

\* what the stages print to sys.stderr (lines 159 and 251)
StageErrors(faults) ==
    (IF faults.nlp THEN <<"Error comparing entities">> ELSE <<>>)
    \o (IF faults.con THEN <<"Error detecting contradictions">> ELSE <<>>)

\* a call that returns early for the empty list only
MeasureConsensus_EmptyListOnly(cache, responses, faults) ==
    LET emb == GetEmbeddings(cache, responses, faults.encAt)
    IN  IF Len(responses) < 1
        THEN [raised |-> FALSE, value |-> One, cache |-> cache, embeddings |-> <<>>,
              invoked |-> <<>>, stored |-> <<>>, stderr |-> <<>>]
        ELSE IF emb.raised
        THEN [raised |-> FALSE, value |-> Zero, cache |-> emb.cache,
              embeddings |-> emb.embeddings,
              invoked |-> emb.invoked, stored |-> emb.stored,
              stderr |-> <<"Error measuring consensus">>]
        ELSE [raised |-> FALSE,
              value |-> Combine(BaseSimilarity(emb.embeddings), responses, faults),
              cache |-> emb.cache, embeddings |-> emb.embeddings,
              invoked |-> emb.invoked, stored |-> emb.stored,
              stderr |-> StageErrors(faults)]

\* faults: which collaborators raise during this call
MeasureConsensus(cache, responses, faults) ==
    LET emb == GetEmbeddings(cache, responses, faults.encAt)
    IN  IF Len(responses) < 2
        THEN [raised |-> FALSE, value |-> One, cache |-> cache, embeddings |-> <<>>,
              invoked |-> <<>>, stored |-> <<>>, stderr |-> <<>>]
        ELSE IF emb.raised
        THEN [raised |-> FALSE, value |-> Zero, cache |-> emb.cache,
              embeddings |-> emb.embeddings,
              invoked |-> emb.invoked, stored |-> emb.stored,
              stderr |-> <<"Error measuring consensus">>]
        ELSE [raised |-> FALSE,
              value |-> Combine(BaseSimilarity(emb.embeddings), responses, faults),
              cache |-> emb.cache, embeddings |-> emb.embeddings,
              invoked |-> emb.invoked, stored |-> emb.stored,
              stderr |-> StageErrors(faults)]

(***************************************************************************)
(* Inputs.                                                                 *)
(***************************************************************************)
NoFaults == [encAt |-> 0, nlp |-> FALSE, con |-> FALSE]

\* the encoder raises at one text, or the later stages raise
FaultsFor(responses) ==
    {[encAt |-> i, nlp |-> FALSE, con |-> FALSE] : i \in 1..Len(responses)}
    \cup {[encAt |-> 0, nlp |-> a, con |-> b] : a, b \in BOOLEAN}

(***************************************************************************)
(* main(): standard input and the JSON documents printed.                  *)
(***************************************************************************)
\* What sys.stdin.read() can hold: nothing but whitespace, a text that is
\* not JSON, a JSON document that is not an object, a JSON object without
\* the key "responses", or a JSON object with a list of responses.
StdinValues ==
    {[kind |-> "blank"], [kind |-> "array"], [kind |-> "object"]}
    \cup {[kind |-> "text", raw |-> t] : t \in Corpus \ {T_Empty}}
    \cup {[kind |-> "responses", responses |-> r] : r \in ResponseLists}

\* round(float(x), 4) for 0 <= x <= 1, ties to even
Round4(x) ==
    LET d1 == (x[1] * 10) \div x[2]
        r1 == (x[1] * 10) % x[2]
        d2 == (r1 * 10) \div x[2]
        r2 == (r1 * 10) % x[2]
        d3 == (r2 * 10) \div x[2]
        r3 == (r2 * 10) % x[2]
        d4 == (r3 * 10) \div x[2]
        r4 == (r3 * 10) % x[2]
        q == 1000 * d1 + 100 * d2 + 10 * d3 + d4
        up == 2 * r4 > x[2] \/ (2 * r4 = x[2] /\ q % 2 = 1)
    IN  Rat(IF up THEN q + 1 ELSE q, 10000)

NoInputPayload == [error |-> "No input provided"]
NoResponsesPayload == [error |-> "No responses provided"]
ErrorPayload(message) ==
    [error |-> message, consensus_score |-> Zero,
     algorithm |-> "semantic_embedding_error"]
SuccessPayload(consensus_score, responses) ==
    [consensus_score |-> Round4(consensus_score), algorithm |-> "semantic_embedding",
     num_responses |-> Len(responses)]

\* lines 266-271: json.loads and data.get("responses", []), or the fallback
ParsedResponses(input) ==
    CASE input.kind = "text" -> <<Strip(input.raw)>>
      [] input.kind = "responses" -> input.responses
      [] OTHER -> <<>>

\* main() as a function of standard input and of what the collaborators do.
\* initFails: loading a model raises in __init__, which calls sys.exit(1).
\* stderr is what the engine printed to sys.stderr.
MainResult(input, initFails, faults) ==
    LET responses == ParsedResponses(input)
        r == MeasureConsensus(EmptyCache, responses, faults)
    IN  CASE input.kind = "blank" ->
                [stdout |-> <<NoInputPayload>>, exit |-> 1, stderr |-> <<>>]
          [] input.kind = "array" ->
                [stdout |-> <<ErrorPayload("AttributeError")>>, exit |-> 1,
                 stderr |-> <<>>]
          [] responses = <<>> ->
                [stdout |-> <<NoResponsesPayload>>, exit |-> 1, stderr |-> <<>>]
          [] initFails ->
                [stdout |-> <<>>, exit |-> 1,
                 stderr |-> <<"Error initializing SmartConsensusEngine">>]
          [] OTHER ->
                [stdout |-> <<SuccessPayload(r.value, responses)>>, exit |-> 0,
                 stderr |-> r.stderr]

(***************************************************************************)
(* The extracted facts the entity comparison is checked on: one list of    *)
(* years and one list of numbers per response.                             *)
(***************************************************************************)
DateLists == {<<>>, <<RInt(2000)>>, <<RInt(2080)>>, <<RInt(2080), RInt(2000)>>}
NumberLists == {<<>>, <<RInt(0)>>, <<RInt(100)>>, <<RInt(200), RInt(0)>>, <<Rat(3, 2)>>}

(***************************************************************************)
(* State.                                                                  *)
(***************************************************************************)
VARIABLES
    cache,      \* self.cache of the engine
    encoded,    \* history: the texts the encoder has been invoked for
    observed,   \* the measure_consensus call under study, once it has run
    process,    \* a run of main(): standard input, then what it printed
    entities    \* the facts handed to the entity comparison, then its result

vars == <<cache, encoded, observed, process, entities>>

NoCall == [called |-> FALSE]
NoProcess == [pc |-> "none"]
NoEntities == [pc |-> "none"]

Range(s) == {s[i] : i \in 1..Len(s)}

\* the engine after __init__
Init ==
    /\ cache = EmptyCache
    /\ encoded = {}
    /\ observed = NoCall
    /\ process = NoProcess
    /\ entities = NoEntities

\* One call engine.measure_consensus(responses).  A run studies one call:
\* the call either is the one under study, and is recorded, or is an earlier
\* call, of which only the effect on the engine remains.
Call(responses, faults) ==
    LET r == MeasureConsensus(cache, responses, faults)
    IN  /\ cache' = r.cache
        /\ encoded' = encoded \cup Range(r.invoked)
        /\ \/ UNCHANGED observed
           \/ observed' = [called |-> TRUE, responses |-> responses, faults |-> faults,
                           raised |-> r.raised, value |-> r.value,
                           embeddings |-> r.embeddings,
                           invoked |-> r.invoked, stored |-> r.stored,
                           stderr |-> r.stderr]
        /\ UNCHANGED <<process, entities>>

Next ==
    /\ ~observed.called
    /\ \E responses \in ResponseLists : \E faults \in FaultsFor(responses) :
          Call(responses, faults)

Spec == Init /\ [][Next]_vars

(***************************************************************************)
(* The process: main() reads standard input, prints and exits.             *)
(***************************************************************************)
InitMain ==
    /\ cache = EmptyCache
    /\ encoded = {}
    /\ observed = NoCall
    /\ entities = NoEntities
    /\ \E input \in StdinValues : process = [pc |-> "start", stdin |-> input]

Main(initFails, faults) ==
    LET r == MainResult(process.stdin, initFails, faults)
    IN  /\ process.pc = "start"
        /\ process' = [pc |-> "exited", stdin |-> process.stdin,
                       stdout |-> r.stdout, exit |-> r.exit, stderr |-> r.stderr]
        /\ UNCHANGED <<cache, encoded, observed, entities>>

NextMain ==
    \E initFails \in BOOLEAN :
        \E faults \in FaultsFor(ParsedResponses(process.stdin)) :
            Main(initFails, faults)

SpecMain == InitMain /\ [][NextMain]_vars

(***************************************************************************)
(* The entity comparison on extracted facts.                               *)
(***************************************************************************)
InitEntities ==
    /\ cache = EmptyCache
    /\ encoded = {}
    /\ observed = NoCall
    /\ process = NoProcess
    /\ \E n \in 0..MaxResponses :
         \E all_dates \in [1..n -> DateLists] : \E all_numbers \in [1..n -> NumberLists] :
            entities = [pc |-> "extracted", all_dates |-> all_dates,
                        all_numbers |-> all_numbers]

\* lines 148-156 of _compare_entities
Compare ==
    /\ entities.pc = "extracted"
    /\ entities' = [pc |-> "compared", all_dates |-> entities.all_dates,
                    all_numbers |-> entities.all_numbers,
                    date_similarity |-> CalculateNumericSimilarity(entities.all_dates),
                    number_similarity |-> CalculateNumericSimilarity(entities.all_numbers),
                    adjustment |-> EntityAdjustment(entities.all_dates,
                                                    entities.all_numbers)]
    /\ UNCHANGED <<cache, encoded, observed, process>>

NextEntities == Compare

SpecEntities == InitEntities /\ [][NextEntities]_vars

(***************************************************************************)
(* Properties.                                                             *)
(***************************************************************************)
\* the step is the call under study
Studied == ~observed.called /\ observed'.called

Permuted(responses, p) == [i \in 1..Len(responses) |-> responses[p[i]]]

\* the score of an engine that calls the encoder for every text
UncachedScore(responses, faults) ==
    Combine(BaseSimilarity([i \in 1..Len(responses) |-> EmbeddingOf[responses[i]]]),
            responses, faults)

\* C1: the value measure_consensus returns lies in [0, 1], for any response
\* list and any cache contents the engine can have.
C1_ScoreInUnitInterval ==
    observed.called =>
        /\ ~observed.raised
        /\ RLe(Zero, observed.value)
        /\ RLe(observed.value, One)

\* a call after earlier calls, with an empty-string response, scored strictly
\* between 0 and 1
C1_Witness ==
    /\ observed.called
    /\ Len(observed.responses) >= 2
    /\ T_Empty \in Range(observed.responses)
    /\ encoded \ Range(observed.invoked) # {}
    /\ RLt(Zero, observed.value)
    /\ RLt(observed.value, One)

\* C2: from the same cache, a response list and every permutation of it get
\* the same score.
C2_PermutationInvariant ==
    [][(Studied /\ observed'.faults = NoFaults) =>
          \A p \in Permutations(1..Len(observed'.responses)) :
              MeasureConsensus(cache, Permuted(observed'.responses, p), NoFaults).value
                  = observed'.value]_vars

\* C3: N >= 2 copies of one text score exactly 1.
C3_IdenticalResponsesScoreOne ==
    (/\ observed.called
     /\ observed.faults = NoFaults
     /\ Len(observed.responses) >= 2
     /\ \A i \in 1..Len(observed.responses) : observed.responses[i] = observed.responses[1])
    => observed.value = One

\* C4: every embedding a call obtains, through the cache or not, is the
\* encoder's embedding of that text, and the score is the score of an engine
\* that always calls the encoder.
C4_CacheHitEqualsMiss ==
    (observed.called /\ observed.faults = NoFaults /\ Len(observed.responses) >= 2)
    => /\ \A i \in 1..Len(observed.responses) :
             observed.embeddings[i] = EmbeddingOf[observed.responses[i]]
       /\ observed.value = UncachedScore(observed.responses, NoFaults)

\* C5 as stated: the encoder is invoked at most once per distinct text over
\* the calls of a run, and no cache entry is overwritten or removed.
C5_EncoderAtMostOncePerText ==
    [][/\ \A k \in DOMAIN cache : k \in DOMAIN cache' /\ cache'[k] = cache[k]
       /\ Studied =>
             \A i \in 1..Len(observed'.invoked) :
                 /\ observed'.invoked[i] \notin encoded
                 /\ \A j \in 1..Len(observed'.invoked) :
                       observed'.invoked[j] = observed'.invoked[i] => j = i]_vars

\* C5 amended: the encoder is invoked only for a text whose key is not in the
\* cache, at most once per key in one call; an invocation that returns stores
\* its vector under the key, an invocation that raises stores nothing; a
\* request whose key is in the cache returns the stored vector; and no cache
\* entry is overwritten or removed.
C5_EncoderOnlyOnMiss ==
    [][/\ \A k \in DOMAIN cache : k \in DOMAIN cache' /\ cache'[k] = cache[k]
       /\ Studied =>
             /\ \A i \in 1..Len(observed'.invoked) :
                   /\ KeyOf[observed'.invoked[i]] \notin DOMAIN cache
                   /\ \A j \in 1..Len(observed'.invoked) :
                         KeyOf[observed'.invoked[j]] = KeyOf[observed'.invoked[i]] => j = i
             /\ \A i \in 1..Len(observed'.stored) :
                   cache'[KeyOf[observed'.stored[i]]] = EmbeddingOf[observed'.stored[i]]
             /\ DOMAIN cache' = DOMAIN cache \cup {KeyOf[t] : t \in Range(observed'.stored)}
             /\ \A i \in 1..Len(observed'.embeddings) :
                   /\ observed'.embeddings[i] = cache'[KeyOf[observed'.responses[i]]]
                   /\ KeyOf[observed'.responses[i]] \in DOMAIN cache =>
                         observed'.responses[i] \notin Range(observed'.invoked)]_vars

\* a call that is served from the cache for a text encoded by an earlier
\* call, and that invokes the encoder for another text
C5_Witness ==
    /\ observed.called
    /\ observed.invoked # <<>>
    /\ \E i \in 1..Len(observed.embeddings) :
          /\ observed.responses[i] \in encoded
          /\ observed.responses[i] \notin Range(observed.invoked)

\* C7: measure_consensus never raises; a failed entity stage counts as the
\* adjustment 1, a failed contradiction stage as the penalty 0, a failed
\* similarity stage makes the call return 0; the other stages' values are
\* those of a call without the failure.
C7_StageFailuresAreNeutral ==
    [][Studied =>
          LET r == observed'.responses
              f == observed'.faults
              emb == GetEmbeddings(cache, r, f.encAt)
              adj == IF f.nlp THEN One ELSE CompareEntities(r, FALSE)
              pen == IF f.con THEN Zero ELSE DetectContradictions(r, FALSE)
          IN  /\ ~observed'.raised
              /\ (Len(r) >= 2 /\ emb.raised) => observed'.value = Zero
              /\ (Len(r) >= 2 /\ ~emb.raised) =>
                    observed'.value =
                        Clamp(RMul(RMul(BaseSimilarity(emb.embeddings), adj),
                                   RSub(One, pen)))]_vars

\* a call in which the entity stage failed and whose score differs from the
\* score without the failure
C7_Witness ==
    /\ observed.called
    /\ observed.faults.nlp
    /\ Len(observed.responses) >= 2
    /\ CompareEntities(observed.responses, FALSE) # One
    /\ RLt(Zero, observed.value)
    /\ RLt(observed.value, One)

\* C9: a call with fewer than two responses returns exactly 1, invokes no
\* collaborator (a collaborator that would raise is not reached) and leaves
\* the cache as it was.
C9_FewerThanTwoResponses ==
    [][(Studied /\ Len(observed'.responses) < 2) =>
          /\ observed'.value = One
          /\ ~observed'.raised
          /\ observed'.invoked = <<>>
          /\ observed'.stderr = <<>>
          /\ cache' = cache
          /\ encoded' = encoded]_vars

\* a call with one response whose key is not cached, on an engine whose cache
\* is not empty, with an encoder that would raise
C9_Witness ==
    /\ observed.called
    /\ Len(observed.responses) = 1
    /\ observed.faults.encAt = 1
    /\ cache # EmptyCache
    /\ KeyOf[observed.responses[1]] \notin DOMAIN cache

\* C6: every run of main() prints exactly one JSON document to standard
\* output.
C6_ExactlyOneJsonDocument ==
    process.pc = "exited" => Len(process.stdout) = 1

\* C8: when the similarity stage raises while main() scores, main() prints
\* the error payload and exits with a non-zero status.
C8_ScoringErrorPayload ==
    (process.pc = "exited" /\ "Error measuring consensus" \in Range(process.stderr))
    => /\ Len(process.stdout) = 1
       /\ DOMAIN process.stdout[1] = {"error", "consensus_score", "algorithm"}
       /\ process.stdout[1].consensus_score = Zero
       /\ process.stdout[1].algorithm = "semantic_embedding_error"
       /\ process.exit # 0

\* C10: both numeric similarities lie in [0, 1] and the entity adjustment in
\* [1, 1.5], for non-negative facts.
C10_AdjustmentInRange ==
    entities.pc = "compared" =>
        /\ RLe(Zero, entities.date_similarity) /\ RLe(entities.date_similarity, One)
        /\ RLe(Zero, entities.number_similarity) /\ RLe(entities.number_similarity, One)
        /\ RLe(One, entities.adjustment) /\ RLe(entities.adjustment, Rat(3, 2))

\* three responses, zero values among the facts, an adjustment strictly
\* between 1 and 1.5
C10_Witness ==
    /\ entities.pc = "compared"
    /\ Len(entities.all_numbers) = 3
    /\ \E i \in 1..3 : RInt(0) \in Range(entities.all_numbers[i])
    /\ RLt(Zero, entities.number_similarity) /\ RLt(entities.number_similarity, One)
    /\ RLt(Zero, entities.date_similarity) /\ RLt(entities.date_similarity, One)
    /\ RLt(One, entities.adjustment) /\ RLt(entities.adjustment, Rat(3, 2))

==========================================================================
